---------------------------- MODULE Spec2Model ----------------------------
(***************************************************************************)
(* Clinical Trials Agent (LAB4-Clinical-Trials-Agent/agent.py).            *)
(*                                                                         *)
(* The four Registry Client operations are operators over the HTTP         *)
(* response the registry gives; run_agent is a state machine whose steps   *)
(* are the first completion call, one step per tool invocation, and the    *)
(* final completion call.                                                  *)
(*                                                                         *)
(* Python values:                                                          *)
(*   str   a sequence of one-character strings; tool names and the JSON    *)
(*         text of tool arguments, which are only ever looked up whole,    *)
(*         are TLA+ strings                                                *)
(*   dict  a function whose domain is the set of keys present              *)
(*   list  a sequence                                                      *)
(*   None  the value None below                                            *)
(* A Python call either returns a value or raises: Ret(v) / Raise(e).      *)
(***************************************************************************)
EXTENDS Integers, Sequences, FiniteSets, TLC

----------------------------------------------------------------------------
(* Bounds of the model *)

\* studies in one registry response (count_trials cuts titles at 3)
MaxCountStudies == 4
\* studies in one registry response of the three other operations
MaxStudies == 2
\* location entries in one study
MaxLocs == 2
\* tool invocations in one model response
MaxCalls == 2

----------------------------------------------------------------------------
(* Python values *)

EmptyDict == [k \in {} |-> 0]

None == <<"<None>">>

Ret(v) == [raised |-> FALSE, value |-> v]

Raise(e) == [raised |-> TRUE, exc |-> e]

\* d.get(k, default)
Get(d, k, default) == IF k \in DOMAIN d THEN d[k] ELSE default

\* bool(x) for x a str or None
Truthy(x) == x /= None /\ x /= <<>>

UpperChars == <<"A","B","C","D","E","F","G","H","I","J","K","L","M",
                "N","O","P","Q","R","S","T","U","V","W","X","Y","Z">>

LowerChars == <<"a","b","c","d","e","f","g","h","i","j","k","l","m",
                "n","o","p","q","r","s","t","u","v","w","x","y","z">>

LowerChar(c) ==
    IF \E i \in DOMAIN UpperChars : UpperChars[i] = c
    THEN LowerChars[CHOOSE i \in DOMAIN UpperChars : UpperChars[i] = c]
    ELSE c

\* str.lower()
Lower(s) == [i \in DOMAIN s |-> LowerChar(s[i])]

Digits == <<"0","1","2","3","4","5","6","7","8","9">>

\* str(n) for an int n >= 0, as the f-string formats it
RECURSIVE IntToStr(_)
IntToStr(n) ==
    IF n < 10 THEN <<Digits[n + 1]>>
    ELSE IntToStr(n \div 10) \o <<Digits[(n % 10) + 1]>>

\* lst[:n]
Take(lst, n) == SubSeq(lst, 1, IF Len(lst) < n THEN Len(lst) ELSE n)

\* x in lst
InList(x, lst) == \E i \in DOMAIN lst : lst[i] = x

NA == <<"N","/","A">>

ApiErrorPrefix == <<"A","P","I"," ","e","r","r","o","r",":"," ">>

\* {"error": f"API error: {response.status_code}"}
ErrorDict(response) ==
    [error |-> ApiErrorPrefix \o IntToStr(response.status_code)]

----------------------------------------------------------------------------
(* Registry Client.  `response` is what requests.get gives: either the     *)
(* transport fails (requests.get raises) or an HTTP response comes back    *)
(* with a status code and a JSON body.                                     *)

SampleTitleCap == 3

FacilityCap == 20

\* s['protocolSection']['identificationModule'][field] does not raise
HasIdField(study, field) ==
    /\ "protocolSection" \in DOMAIN study
    /\ "identificationModule" \in DOMAIN study.protocolSection
    /\ field \in DOMAIN study.protocolSection.identificationModule

IdField(study, field) == study.protocolSection.identificationModule[field]

\* count_trials that raises on a status other than 200 (raise_for_status)
count_trials_raise_for_status(condition, status, response) ==
    IF response.failed THEN Raise("ConnectionError")
    ELSE IF response.status_code = 200
    THEN LET data == response.json
             studies == Get(data, "studies", <<>>)
             first == Take(studies, SampleTitleCap)
         IN IF \E i \in DOMAIN first : ~HasIdField(first[i], "briefTitle")
            THEN Raise("KeyError")
            ELSE Ret([count |-> Len(studies),
                      condition |-> condition,
                      status |-> status,
                      sample_titles |->
                          [i \in DOMAIN first |-> IdField(first[i], "briefTitle")]])
    ELSE Raise("HTTPError")

count_trials(condition, status, response) ==
    IF response.failed THEN Raise("ConnectionError")
    ELSE IF response.status_code = 200
    THEN LET data == response.json
             studies == Get(data, "studies", <<>>)
             first == Take(studies, SampleTitleCap)
         IN IF \E i \in DOMAIN first : ~HasIdField(first[i], "briefTitle")
            THEN Raise("KeyError")
            ELSE Ret([count |-> Len(studies),
                      condition |-> condition,
                      status |-> status,
                      sample_titles |->
                          [i \in DOMAIN first |-> IdField(first[i], "briefTitle")]])
    ELSE Ret(ErrorDict(response))

\* the body of the loop of get_eligibility_criteria, for a study it accepts
EligibilityEntry(study) ==
    LET protocol == study.protocolSection
        eligibility == Get(protocol, "eligibilityModule", EmptyDict)
    IN [nct_id |-> protocol.identificationModule.nctId,
        title |-> protocol.identificationModule.briefTitle,
        criteria |-> Get(eligibility, "eligibilityCriteria", NA),
        sex |-> Get(eligibility, "sex", NA),
        age_range |-> Get(eligibility, "minimumAge", NA)
                      \o <<" ", "-", " ">>
                      \o Get(eligibility, "maximumAge", NA)]

\* get_eligibility_criteria that indexes data['studies'] without a default
get_eligibility_criteria_index_studies(condition, max_trials, response) ==
    IF response.failed THEN Raise("ConnectionError")
    ELSE IF response.status_code = 200
    THEN LET data == response.json
         IN IF "studies" \notin DOMAIN data THEN Raise("KeyError")
            ELSE IF \E i \in DOMAIN data.studies :
                   ~(HasIdField(data.studies[i], "nctId")
                     /\ HasIdField(data.studies[i], "briefTitle"))
            THEN Raise("KeyError")
            ELSE LET criteria_list ==
                         [i \in DOMAIN data.studies |-> EligibilityEntry(data.studies[i])]
                 IN Ret([condition |-> condition,
                         number_of_trials |-> Len(criteria_list),
                         criteria |-> criteria_list])
    ELSE Ret(ErrorDict(response))

get_eligibility_criteria(condition, max_trials, response) ==
    IF response.failed THEN Raise("ConnectionError")
    ELSE IF response.status_code = 200
    THEN LET data == response.json
             studies == Get(data, "studies", <<>>)
         IN IF \E i \in DOMAIN studies :
                   ~(HasIdField(studies[i], "nctId") /\ HasIdField(studies[i], "briefTitle"))
            THEN Raise("KeyError")
            ELSE LET criteria_list == [i \in DOMAIN studies |-> EligibilityEntry(studies[i])]
                 IN Ret([condition |-> condition,
                         number_of_trials |-> Len(criteria_list),
                         criteria |-> criteria_list])
    ELSE Ret(ErrorDict(response))

\* the country filter comparing without lower()
FilteredOut_case_sensitive(loc, country) ==
    Truthy(country) /\ Get(loc, "country", <<>>) /= country

\* the country filter of get_trial_locations: TRUE when the entry is skipped
FilteredOut(loc, country) ==
    Truthy(country) /\ Lower(Get(loc, "country", <<>>)) /= Lower(country)

FacilityInfo(loc) ==
    [facility |-> Get(loc, "facility", NA),
     city |-> Get(loc, "city", NA),
     country |-> Get(loc, "country", NA)]

\* the inner loop without the duplicate test
RECURSIVE AddLocations_no_dedup(_, _, _)
AddLocations_no_dedup(facilities, locations, country) ==
    IF locations = <<>> THEN facilities
    ELSE LET loc == Head(locations)
         IN IF FilteredOut(loc, country)
            THEN AddLocations_no_dedup(facilities, Tail(locations), country)
            ELSE AddLocations_no_dedup(Append(facilities, FacilityInfo(loc)),
                                       Tail(locations), country)

\* the inner loop of get_trial_locations over one study's locations
RECURSIVE AddLocations(_, _, _)
AddLocations(facilities, locations, country) ==
    IF locations = <<>> THEN facilities
    ELSE LET loc == Head(locations)
             facility_info == FacilityInfo(loc)
         IN IF FilteredOut(loc, country)
            THEN AddLocations(facilities, Tail(locations), country)
            ELSE AddLocations(IF InList(facility_info, facilities)
                              THEN facilities
                              ELSE Append(facilities, facility_info),
                              Tail(locations), country)

\* the outer loop of get_trial_locations; every study has a protocolSection
RECURSIVE CollectFacilities(_, _, _)
CollectFacilities(facilities, studies, country) ==
    IF studies = <<>> THEN facilities
    ELSE LET protocol == Head(studies).protocolSection
         IN IF "contactsLocationsModule" \in DOMAIN protocol
            THEN CollectFacilities(
                     AddLocations(facilities,
                                  Get(protocol.contactsLocationsModule, "locations", <<>>),
                                  country),
                     Tail(studies), country)
            ELSE CollectFacilities(facilities, Tail(studies), country)

get_trial_locations(condition, country, response) ==
    IF response.failed THEN Raise("ConnectionError")
    ELSE IF response.status_code = 200
    THEN LET data == response.json
             studies == Get(data, "studies", <<>>)
         IN IF \E i \in DOMAIN studies : "protocolSection" \notin DOMAIN studies[i]
            THEN Raise("KeyError")
            ELSE LET facilities == CollectFacilities(<<>>, studies, country)
                 IN Ret([condition |-> condition,
                         country |-> IF Truthy(country) THEN country ELSE <<"a","l","l">>,
                         number_of_facilities |-> Len(facilities),
                         facilities |-> Take(facilities, FacilityCap)])
    ELSE Ret(ErrorDict(response))

\* the loop body of get_trial_phases defaulting the phase to the string
PhaseEntry_string_phase(study) ==
    LET protocol == study.protocolSection
        status_module == Get(protocol, "statusModule", EmptyDict)
    IN [nct_id |-> protocol.identificationModule.nctId,
        title |-> protocol.identificationModule.briefTitle,
        phase |-> Get(Get(protocol, "designModule", EmptyDict), "phases", NA),
        start_date |-> Get(Get(status_module, "startDateStruct", EmptyDict), "date", NA),
        completion_date |->
            Get(Get(status_module, "completionDateStruct", EmptyDict), "date", NA)]

\* the body of the loop of get_trial_phases, for a study it accepts
PhaseEntry(study) ==
    LET protocol == study.protocolSection
        status_module == Get(protocol, "statusModule", EmptyDict)
    IN [nct_id |-> protocol.identificationModule.nctId,
        title |-> protocol.identificationModule.briefTitle,
        phase |-> Get(Get(protocol, "designModule", EmptyDict), "phases", <<NA>>),
        start_date |-> Get(Get(status_module, "startDateStruct", EmptyDict), "date", NA),
        completion_date |->
            Get(Get(status_module, "completionDateStruct", EmptyDict), "date", NA)]

\* get_trial_phases that takes every 2xx status for a success
get_trial_phases_any_2xx(condition, phase, response) ==
    IF response.failed THEN Raise("ConnectionError")
    ELSE IF response.status_code < 300
    THEN LET data == response.json
             studies == Get(data, "studies", <<>>)
         IN IF \E i \in DOMAIN studies :
                   ~(HasIdField(studies[i], "nctId") /\ HasIdField(studies[i], "briefTitle"))
            THEN Raise("KeyError")
            ELSE LET trials == [i \in DOMAIN studies |-> PhaseEntry(studies[i])]
                 IN Ret([condition |-> condition,
                         phase |-> phase,
                         count |-> Len(trials),
                         trials |-> trials])
    ELSE Ret(ErrorDict(response))

get_trial_phases(condition, phase, response) ==
    IF response.failed THEN Raise("ConnectionError")
    ELSE IF response.status_code = 200
    THEN LET data == response.json
             studies == Get(data, "studies", <<>>)
         IN IF \E i \in DOMAIN studies :
                   ~(HasIdField(studies[i], "nctId") /\ HasIdField(studies[i], "briefTitle"))
            THEN Raise("KeyError")
            ELSE LET trials == [i \in DOMAIN studies |-> PhaseEntry(studies[i])]
                 IN Ret([condition |-> condition,
                         phase |-> phase,
                         count |-> Len(trials),
                         trials |-> trials])
    ELSE Ret(ErrorDict(response))

----------------------------------------------------------------------------
(* Registry responses the model draws from *)

SeqsUpTo(S, n) == UNION {[1..k -> S] : k \in 0..n}

Http(code, body) == [failed |-> FALSE, status_code |-> code, json |-> body]

TransportFailure == [failed |-> TRUE, status_code |-> 0, json |-> EmptyDict]

\* upstream statuses other than 200
ErrorStatuses == {201, 204, 301, 400, 404, 429, 500, 503}

ErrorResponses == {Http(c, EmptyDict) : c \in ErrorStatuses}

IdModule(d) == [nctId |-> <<"N", "C", "T", d>>, briefTitle |-> <<"T", d>>]

StudyOf(protocol) == [protocolSection |-> protocol]

\* study records that lack a key the operations index without a default
BrokenStudies ==
    {EmptyDict,
     StudyOf(EmptyDict),
     StudyOf([identificationModule |-> [nctId |-> <<"N", "C", "T", "9">>]])}

CountStudies ==
    BrokenStudies \cup {StudyOf([identificationModule |-> IdModule(d)]) : d \in {"1", "2"}}

EligibilityModules ==
    {EmptyDict,
     [eligibilityCriteria |-> <<"c">>],
     [minimumAge |-> <<"1", "8">>],
     [sex |-> <<"A", "L", "L">>, maximumAge |-> <<"6", "5">>],
     [eligibilityCriteria |-> <<"c">>, sex |-> <<"A", "L", "L">>,
      minimumAge |-> <<"1", "8">>, maximumAge |-> <<"6", "5">>]}

EligibilityStudies ==
    BrokenStudies
    \cup {StudyOf([identificationModule |-> IdModule("1")])}
    \cup {StudyOf([identificationModule |-> IdModule("1"), eligibilityModule |-> e]) :
              e \in EligibilityModules}

DateOf(d) == <<"2", "0", "2", d>>

\* the statusModule key absent, or present with these values
StatusParts ==
    {EmptyDict,
     [statusModule |-> EmptyDict],
     [statusModule |-> [startDateStruct |-> EmptyDict]],
     [statusModule |-> [completionDateStruct |-> [date |-> DateOf("5")]]],
     [statusModule |-> [startDateStruct |-> [date |-> DateOf("1")],
                        completionDateStruct |-> [date |-> DateOf("5")]]]}

\* the designModule key absent, or present with these values
DesignParts ==
    {EmptyDict,
     [designModule |-> EmptyDict],
     [designModule |-> [phases |-> << <<"P", "H", "A", "S", "E", "3">> >>]]}

PhaseStudies ==
    BrokenStudies
    \cup {StudyOf([identificationModule |-> IdModule("1")] @@ s @@ d) :
              s \in StatusParts, d \in DesignParts}

ES == <<"E", "S">>

\* location entries: a full one, the same with the country in lower case,
\* and one with neither city nor country
Locs ==
    {[facility |-> <<"F", "1">>, city |-> <<"M">>, country |-> ES],
     [facility |-> <<"F", "1">>, city |-> <<"M">>, country |-> Lower(ES)],
     [facility |-> <<"F", "1">>]}

LocationStudies ==
    {EmptyDict,
     StudyOf([identificationModule |-> IdModule("1")]),
     StudyOf([contactsLocationsModule |-> EmptyDict])}
    \cup {StudyOf([contactsLocationsModule |-> [locations |-> ls]]) :
              ls \in SeqsUpTo(Locs, MaxLocs)}

\* the i-th of a run of pairwise distinct facilities of one country
Fac(i) == [facility |-> <<"F">> \o IntToStr(i), city |-> <<"M">>, country |-> ES]

\* a response listing n distinct facilities and then one of them again,
\* in the same study or in a second one
ManyFacilities(n, again, split) ==
    LET run == [i \in 1..n |-> Fac(i)]
    IN IF split
       THEN Http(200, [studies |->
                <<StudyOf([contactsLocationsModule |-> [locations |-> run]]),
                  StudyOf([contactsLocationsModule |-> [locations |-> <<Fac(again)>>]])>>])
       ELSE Http(200, [studies |->
                <<StudyOf([contactsLocationsModule |->
                              [locations |-> Append(run, Fac(again))]])>>])

LargeLocationResponses ==
    {ManyFacilities(n, again, split) :
        n \in {FacilityCap - 1, FacilityCap, FacilityCap + 1},
        again \in {1, FacilityCap - 1, FacilityCap, FacilityCap + 1},
        split \in BOOLEAN} 

Conditions == {<<"a", "s", "t", "h", "m", "a">>}

CountryFilters == {None, <<>>, <<"E", "s">>, <<"F", "R">>}

\* responses that carry no study record
PlainResponses == ErrorResponses \cup {TransportFailure, Http(200, EmptyDict)}

----------------------------------------------------------------------------
(* Orchestration loop: what the completion endpoint can answer *)

Asthma == <<"a", "s", "t", "h", "m", "a">>

\* the argument strings the model issues
ArgTexts ==
    {"{\"condition\": \"asthma\"}",
     "{\"condition\": \"asthma\", \"phase\": \"PHASE3\"}",
     "{\"condition\": \"asthma\""}

\* json.loads that gives an empty object for text it cannot parse
JsonLoads_lenient(text) ==
    CASE text = "{\"condition\": \"asthma\"}" ->
             Ret([condition |-> Asthma])
      [] text = "{\"condition\": \"asthma\", \"phase\": \"PHASE3\"}" ->
             Ret([condition |-> Asthma, phase |-> <<"P", "H", "A", "S", "E", "3">>])
      [] OTHER -> Ret(EmptyDict)

\* json.loads on those strings
JsonLoads(text) ==
    CASE text = "{\"condition\": \"asthma\"}" ->
             Ret([condition |-> Asthma])
      [] text = "{\"condition\": \"asthma\", \"phase\": \"PHASE3\"}" ->
             Ret([condition |-> Asthma, phase |-> <<"P", "H", "A", "S", "E", "3">>])
      [] OTHER -> Raise("JSONDecodeError")

\* the characters of a str inside a JSON string: " and \ are escaped
RECURSIVE JsonEscape(_)
JsonEscape(s) ==
    IF s = <<>> THEN <<>>
    ELSE (IF Head(s) = "\"" \/ Head(s) = "\\" THEN <<"\\", Head(s)>> ELSE <<Head(s)>>)
         \o JsonEscape(Tail(s))

\* a str written the way repr() writes it, in single quotes
DumpStr_repr(s) == <<"'">> \o s \o <<"'">>

\* json.dumps of a str
DumpStr(s) == <<"\"">> \o JsonEscape(s) \o <<"\"">>

\* json.dumps of an int >= 0
DumpInt(n) == IntToStr(n)

\* sep.join(parts)
RECURSIVE Join(_, _)
Join(parts, sep) ==
    IF parts = <<>> THEN <<>>
    ELSE IF Len(parts) = 1 THEN parts[1]
    ELSE parts[1] \o sep \o Join(Tail(parts), sep)

\* json.dumps of a list whose items are already serialised
DumpList(items) == <<"[">> \o Join(items, <<",", " ">>) \o <<"]">>

\* the characters of a dictionary key
KeyText(k) ==
    CASE k = "error" ->
             <<"e", "r", "r", "o", "r">>
      [] k = "count" ->
             <<"c", "o", "u", "n", "t">>
      [] k = "condition" ->
             <<"c", "o", "n", "d", "i", "t", "i", "o", "n">>
      [] k = "status" ->
             <<"s", "t", "a", "t", "u", "s">>
      [] k = "sample_titles" ->
             <<"s", "a", "m", "p", "l", "e", "_", "t", "i", "t", "l", "e", "s">>
      [] k = "number_of_trials" ->
             <<"n", "u", "m", "b", "e", "r", "_", "o", "f", "_", "t", "r", "i", "a",
               "l", "s">>
      [] k = "criteria" ->
             <<"c", "r", "i", "t", "e", "r", "i", "a">>
      [] k = "nct_id" ->
             <<"n", "c", "t", "_", "i", "d">>
      [] k = "title" ->
             <<"t", "i", "t", "l", "e">>
      [] k = "sex" ->
             <<"s", "e", "x">>
      [] k = "age_range" ->
             <<"a", "g", "e", "_", "r", "a", "n", "g", "e">>
      [] k = "country" ->
             <<"c", "o", "u", "n", "t", "r", "y">>
      [] k = "number_of_facilities" ->
             <<"n", "u", "m", "b", "e", "r", "_", "o", "f", "_", "f", "a", "c", "i",
               "l", "i", "t", "i", "e", "s">>
      [] k = "facilities" ->
             <<"f", "a", "c", "i", "l", "i", "t", "i", "e", "s">>
      [] k = "facility" ->
             <<"f", "a", "c", "i", "l", "i", "t", "y">>
      [] k = "city" ->
             <<"c", "i", "t", "y">>
      [] k = "phase" ->
             <<"p", "h", "a", "s", "e">>
      [] k = "trials" ->
             <<"t", "r", "i", "a", "l", "s">>
      [] k = "start_date" ->
             <<"s", "t", "a", "r", "t", "_", "d", "a", "t", "e">>
      [] k = "completion_date" ->
             <<"c", "o", "m", "p", "l", "e", "t", "i", "o", "n", "_", "d", "a", "t",
               "e">>

\* json.dumps of a dict given as its keys, in insertion order, each with its
\* serialised value
DumpDict(pairs) ==
    <<"{">>
    \o Join([i \in DOMAIN pairs |->
                DumpStr(KeyText(pairs[i][1])) \o <<":", " ">> \o pairs[i][2]],
            <<",", " ">>)
    \o <<"}">>

DumpStrList(l) == DumpList([i \in DOMAIN l |-> DumpStr(l[i])])

\* json.dumps(function_response): the result of a Registry Client operation,
\* told apart by its keys, which are written in the order the operation's
\* dict literal gives them
JsonDumps(v) ==
    CASE "error" \in DOMAIN v ->
             DumpDict(<< <<"error", DumpStr(v.error)>> >>)
      [] "sample_titles" \in DOMAIN v ->
             DumpDict(<< <<"count", DumpInt(v.count)>>,
                         <<"condition", DumpStr(v.condition)>>,
                         <<"status", DumpStr(v.status)>>,
                         <<"sample_titles", DumpStrList(v.sample_titles)>> >>)
      [] "criteria" \in DOMAIN v ->
             DumpDict(<< <<"condition", DumpStr(v.condition)>>,
                         <<"number_of_trials", DumpInt(v.number_of_trials)>>,
                         <<"criteria",
                           DumpList([i \in DOMAIN v.criteria |->
                               DumpDict(<< <<"nct_id", DumpStr(v.criteria[i].nct_id)>>,
                                           <<"title", DumpStr(v.criteria[i].title)>>,
                                           <<"criteria", DumpStr(v.criteria[i].criteria)>>,
                                           <<"sex", DumpStr(v.criteria[i].sex)>>,
                                           <<"age_range",
                                             DumpStr(v.criteria[i].age_range)>> >>)])>> >>)
      [] "facilities" \in DOMAIN v ->
             DumpDict(<< <<"condition", DumpStr(v.condition)>>,
                         <<"country", DumpStr(v.country)>>,
                         <<"number_of_facilities", DumpInt(v.number_of_facilities)>>,
                         <<"facilities",
                           DumpList([i \in DOMAIN v.facilities |->
                               DumpDict(<< <<"facility", DumpStr(v.facilities[i].facility)>>,
                                           <<"city", DumpStr(v.facilities[i].city)>>,
                                           <<"country",
                                             DumpStr(v.facilities[i].country)>> >>)])>> >>)
      [] "trials" \in DOMAIN v ->
             DumpDict(<< <<"condition", DumpStr(v.condition)>>,
                         <<"phase", DumpStr(v.phase)>>,
                         <<"count", DumpInt(v.count)>>,
                         <<"trials",
                           DumpList([i \in DOMAIN v.trials |->
                               DumpDict(<< <<"nct_id", DumpStr(v.trials[i].nct_id)>>,
                                           <<"title", DumpStr(v.trials[i].title)>>,
                                           <<"phase", DumpStrList(v.trials[i].phase)>>,
                                           <<"start_date", DumpStr(v.trials[i].start_date)>>,
                                           <<"completion_date",
                                             DumpStr(v.trials[i].completion_date)>> >>)])>> >>)

available_functions ==
    {"count_trials", "get_eligibility_criteria", "get_trial_locations",
     "get_trial_phases"}

ToolNames == available_functions \cup {"delete_trials"}

\* the parameters of each operation without a default, and all of them
Required(name) ==
    IF name = "get_trial_phases" THEN {"condition", "phase"} ELSE {"condition"}

Allowed(name) ==
    CASE name = "count_trials" -> {"condition", "status"}
      [] name = "get_eligibility_criteria" -> {"condition", "max_trials"}
      [] name = "get_trial_locations" -> {"condition", "country"}
      [] name = "get_trial_phases" -> {"condition", "phase"}

\* f(**kwargs) binds: no required parameter missing, no unexpected keyword
Binds(name, kwargs) ==
    Required(name) \subseteq DOMAIN kwargs /\ DOMAIN kwargs \subseteq Allowed(name)

\* available_functions[name](**kwargs), for kwargs that bind
Dispatch(name, kwargs, response) ==
    CASE name = "count_trials" ->
             count_trials(kwargs.condition,
                          Get(kwargs, "status",
                              <<"R","E","C","R","U","I","T","I","N","G">>),
                          response)
      [] name = "get_eligibility_criteria" ->
             get_eligibility_criteria(kwargs.condition, Get(kwargs, "max_trials", 5),
                                      response)
      [] name = "get_trial_locations" ->
             get_trial_locations(kwargs.condition, Get(kwargs, "country", None),
                                 response)
      [] name = "get_trial_phases" ->
             get_trial_phases(kwargs.condition, kwargs.phase, response)

ToolCall(i, name, text) ==
    [id |-> <<"c", "a", "l", "l", "_">> \o IntToStr(i),
     function |-> [name |-> name, arguments |-> text]]

Invocations == ToolNames \X ArgTexts

\* the tool_calls lists of a model response that has any
ToolCallLists ==
    {[i \in DOMAIN b |-> ToolCall(i, b[i][1], b[i][2])] :
        b \in SeqsUpTo(Invocations, MaxCalls)}

Contents == {None, <<"h", "i">>}

\* the first response message: tool_calls None (key absent) or a list
FirstMessages ==
    {[role |-> "assistant", content |-> c] : c \in Contents}
    \cup {[role |-> "assistant", content |-> c, tool_calls |-> tcs] :
             c \in Contents, tcs \in ToolCallLists}

FinalMessages == {[role |-> "assistant", content |-> c] : c \in {None, <<"o", "k">>}}

\* a study record every operation accepts
GoodStudy ==
    StudyOf([identificationModule |-> IdModule("1"),
             contactsLocationsModule |->
                 [locations |-> <<[facility |-> <<"F", "1">>, country |-> ES]>>]])

\* what the registry answers to a tool's request
AgentResponses ==
    {Http(200, EmptyDict),
     Http(200, [studies |-> <<GoodStudy>>]),
     Http(200, [studies |-> <<EmptyDict>>]),
     Http(404, EmptyDict),
     TransportFailure}

SystemPrompt == <<"s", "y", "s">>

Questions == {<<"q", "?">>, <<"h", "o", "w", "?">>}

----------------------------------------------------------------------------
(* State *)

VARIABLES
    pc,              \* where run_agent is
    messages,        \* the Conversation
    tool_calls,      \* response_message.tool_calls of the first response
    idx,             \* position of the for loop in tool_calls (1-based)
    completions,     \* the completion calls made: request and response
    registry_calls,  \* the Registry Client calls made: name, kwargs, response, result
    answer,          \* the value run_agent returned
    exc,             \* the exception that left run_agent
    call,            \* a direct call of a Registry Client operation
    result           \* what that call gave

vars == <<pc, messages, tool_calls, idx, completions, registry_calls, answer, exc,
          call, result>>

agent_vars == <<pc, messages, tool_calls, idx, completions, registry_calls, answer, exc>>

NoCall == [op |-> "none"]

Pending == [raised |-> FALSE, pending |-> TRUE]

\* tool_calls is None
NoToolCalls_none_only(msg) == "tool_calls" \notin DOMAIN msg

\* not tool_calls
NoToolCalls(msg) == "tool_calls" \notin DOMAIN msg \/ msg.tool_calls = <<>>

\* run_agent up to its first completion call
Init ==
    /\ pc = "AwaitingModelDecision"
    /\ \E q \in Questions :
           messages = <<[role |-> "system", content |-> SystemPrompt],
                        [role |-> "user", content |-> q]>>
    /\ tool_calls = <<>>
    /\ idx = 1
    /\ completions = <<>>
    /\ registry_calls = <<>>
    /\ answer = None
    /\ exc = "none"
    /\ call = NoCall
    /\ result = Pending

\* the first completion call and the branch on tool_calls
FirstCompletion ==
    /\ pc = "AwaitingModelDecision"
    /\ \E response_message \in FirstMessages :
        /\ completions' = Append(completions,
               [messages |-> messages, tools |-> TRUE, tool_choice |-> "auto",
                response |-> response_message])
        /\ IF NoToolCalls(response_message)
           THEN /\ pc' = "Returned"
                /\ answer' = response_message.content
                /\ UNCHANGED <<messages, tool_calls>>
           ELSE /\ pc' = "ExecutingTools"
                /\ messages' = Append(messages, response_message)
                /\ tool_calls' = response_message.tool_calls
                /\ UNCHANGED answer
    /\ UNCHANGED <<idx, registry_calls, exc, call, result>>

\* one pass of the for loop over tool_calls
ExecuteTool ==
    /\ pc = "ExecutingTools"
    /\ idx <= Len(tool_calls)
    /\ \E response \in AgentResponses :
        LET tool_call == tool_calls[idx]
            function_name == tool_call.function.name
            parsed == JsonLoads(tool_call.function.arguments)
            function_args == parsed.value
            entered == /\ ~parsed.raised
                       /\ function_name \in available_functions
                       /\ Binds(function_name, function_args)
            function_response == Dispatch(function_name, function_args, response)
            raised == IF parsed.raised THEN parsed.exc
                      ELSE IF function_name \notin available_functions THEN "KeyError"
                      ELSE IF ~Binds(function_name, function_args) THEN "TypeError"
                      ELSE IF function_response.raised THEN function_response.exc
                      ELSE "none"
        IN /\ registry_calls' =
                  IF entered
                  THEN Append(registry_calls,
                              [name |-> function_name, kwargs |-> function_args,
                               response |-> response, result |-> function_response])
                  ELSE registry_calls
           /\ IF raised /= "none"
              THEN /\ pc' = "Raised"
                   /\ exc' = raised
                   /\ UNCHANGED <<messages, idx>>
              ELSE /\ messages' = Append(messages,
                          [role |-> "tool",
                           tool_call_id |-> tool_call.id,
                           name |-> function_name,
                           content |-> JsonDumps(function_response.value)])
                   /\ idx' = idx + 1
                   /\ pc' = IF idx = Len(tool_calls)
                            THEN "AwaitingFinalAnswer" ELSE "ExecutingTools"
                   /\ UNCHANGED exc
    /\ UNCHANGED <<tool_calls, completions, answer, call, result>>

\* the second completion call, returning the first response's text
FinalCompletion_first_text ==
    /\ pc = "AwaitingFinalAnswer"
    /\ \E final_message \in FinalMessages :
        /\ completions' = Append(completions,
               [messages |-> messages, tools |-> FALSE, tool_choice |-> "unset",
                response |-> final_message])
        /\ answer' = completions[1].response.content
    /\ pc' = "Returned"
    /\ UNCHANGED <<messages, tool_calls, idx, registry_calls, exc, call, result>>

\* the second completion call and the return
FinalCompletion ==
    /\ pc = "AwaitingFinalAnswer"
    /\ \E final_message \in FinalMessages :
        /\ completions' = Append(completions,
               [messages |-> messages, tools |-> FALSE, tool_choice |-> "unset",
                response |-> final_message])
        /\ answer' = final_message.content
    /\ pc' = "Returned"
    /\ UNCHANGED <<messages, tool_calls, idx, registry_calls, exc, call, result>>

Next == FirstCompletion \/ ExecuteTool \/ FinalCompletion

Spec == Init /\ [][Next]_vars

----------------------------------------------------------------------------
(* The Registry Client operations called directly *)

\* a direct call op(a, b) answered by a plain response or by a 200 response
\* with up to n study records of S
DrawCall(op, a, b, S, n) ==
    \/ \E r \in PlainResponses :
           call = [op |-> op, a |-> a, b |-> b, response |-> r]
    \/ \E k \in 0..n : \E ss \in [1..k -> S] :
           call = [op |-> op, a |-> a, b |-> b,
                   response |-> Http(200, [studies |-> ss])]

ClientInit ==
    /\ pc = "Client"
    /\ messages = <<>>
    /\ tool_calls = <<>>
    /\ idx = 1
    /\ completions = <<>>
    /\ registry_calls = <<>>
    /\ answer = None
    /\ exc = "none"
    /\ \E c \in Conditions :
          \/ \E st \in {<<"R">>, <<"C">>} :
                 DrawCall("count_trials", c, st, CountStudies, MaxCountStudies)
          \/ DrawCall("get_eligibility_criteria", c, 5, EligibilityStudies, MaxStudies)
          \/ \E co \in CountryFilters :
                 \/ DrawCall("get_trial_locations", c, co, LocationStudies, MaxStudies)
                 \/ \E r \in LargeLocationResponses :
                        call = [op |-> "get_trial_locations", a |-> c, b |-> co,
                                response |-> r]
          \/ DrawCall("get_trial_phases", c, <<"P", "3">>, PhaseStudies, MaxStudies)
    /\ result = Pending

CallCountTrials ==
    /\ call.op = "count_trials" /\ result = Pending
    /\ result' = count_trials(call.a, call.b, call.response)
    /\ UNCHANGED <<agent_vars, call>>

CallGetEligibilityCriteria ==
    /\ call.op = "get_eligibility_criteria" /\ result = Pending
    /\ result' = get_eligibility_criteria(call.a, call.b, call.response)
    /\ UNCHANGED <<agent_vars, call>>

CallGetTrialLocations ==
    /\ call.op = "get_trial_locations" /\ result = Pending
    /\ result' = get_trial_locations(call.a, call.b, call.response)
    /\ UNCHANGED <<agent_vars, call>>

CallGetTrialPhases ==
    /\ call.op = "get_trial_phases" /\ result = Pending
    /\ result' = get_trial_phases(call.a, call.b, call.response)
    /\ UNCHANGED <<agent_vars, call>>

ClientNext ==
    \/ CallCountTrials
    \/ CallGetEligibilityCriteria
    \/ CallGetTrialLocations
    \/ CallGetTrialPhases

ClientSpec == ClientInit /\ [][ClientNext]_vars

----------------------------------------------------------------------------
(* Claims about run_agent (specification Spec) *)

\* the first response message, once the first completion call is made
FirstResponse == completions[1].response

\* the number N of tool invocations the first response carries
NumInvocations ==
    IF "tool_calls" \in DOMAIN FirstResponse THEN Len(FirstResponse.tool_calls) ELSE 0

Invocation(i) == FirstResponse.tool_calls[i]

InvalidJsonText == "{\"condition\": \"asthma\""

KnownOperations ==
    {"count_trials", "get_eligibility_criteria", "get_trial_locations",
     "get_trial_phases"}

\* the claims' malformed invocation: arguments not valid JSON, or an unknown name
Malformed(tc) ==
    tc.function.arguments = InvalidJsonText \/ tc.function.name \notin KnownOperations

\* the keyword arguments the argument strings stand for
ArgsOf(text) ==
    IF text = "{\"condition\": \"asthma\"}"
    THEN [condition |-> Asthma]
    ELSE [condition |-> Asthma, phase |-> <<"P", "H", "A", "S", "E", "3">>]

\* the Registry Client calls made so far are those of the first k invocations,
\* one per invocation and in invocation order
CallsMatchPrefix(k) ==
    /\ Len(registry_calls) = k
    /\ k <= NumInvocations
    /\ \A i \in 1..k :
          /\ registry_calls[i].name = Invocation(i).function.name
          /\ registry_calls[i].kwargs = ArgsOf(Invocation(i).function.arguments)

\* C1 as stated: whenever the first response carries N >= 1 invocations, the
\* run ends with exactly N Registry Client calls, in invocation order, then
\* one more completion call, and returns the second call's text.
C1_Original ==
    (Len(completions) >= 1 /\ NumInvocations >= 1 /\ pc \in {"Returned", "Raised"}) =>
        /\ pc = "Returned"
        /\ CallsMatchPrefix(NumInvocations)
        /\ Len(completions) = 2
        /\ answer = completions[2].response.content

\* C1 amended: with N >= 1 invocations, a run that returns has made exactly N
\* Registry Client calls, one per invocation in invocation order, before
\* its second and last completion call, and returns that call's text; a run
\* that raises (malformed invocation, or a Registry Client call that raises)
\* has made calls for a prefix of the invocations only, in order, and no
\* second completion call.
C1_Amended ==
    (Len(completions) >= 1 /\ NumInvocations >= 1) =>
        /\ Len(completions) <= 2
        /\ (Len(completions) = 2 => pc = "Returned")
        /\ \E k \in 0..NumInvocations : CallsMatchPrefix(k)
        /\ (pc = "Returned" =>
               /\ CallsMatchPrefix(NumInvocations)
               /\ Len(completions) = 2
               /\ completions[2].messages = messages
               /\ answer = completions[2].response.content)
        /\ (pc = "Raised" =>
               /\ Len(completions) = 1
               /\ answer = None
               /\ Len(registry_calls) \in {idx - 1, idx}
               /\ \/ Malformed(Invocation(idx))
                  \/ ~Binds(Invocation(idx).function.name,
                            ArgsOf(Invocation(idx).function.arguments))
                  \/ /\ Len(registry_calls) = idx
                     /\ registry_calls[idx].result.raised)

\* a run with two invocations of different operations that returned
C1_Witness ==
    /\ pc = "Returned"
    /\ Len(completions) = 2
    /\ NumInvocations = 2
    /\ Len(registry_calls) = 2
    /\ registry_calls[1].name /= registry_calls[2].name
    /\ answer = <<"o", "k">>

\* C2: when the first response carries no tool invocations (tool_calls None
\* or empty), run_agent is over right after the first completion call: it
\* returned that response's text, made one completion call and no Registry
\* Client call, and never entered Executing Tools or Awaiting Final Answer.
C2_NoToolsReturnsFirstText ==
    (Len(completions) >= 1 /\ NumInvocations = 0) =>
        /\ pc = "Returned"
        /\ answer = FirstResponse.content
        /\ Len(completions) = 1
        /\ registry_calls = <<>>
        /\ Len(messages) = 2

\* a run whose first response had an empty tool_calls list and a text
C2_Witness ==
    /\ pc = "Returned"
    /\ Len(completions) = 1
    /\ "tool_calls" \in DOMAIN FirstResponse
    /\ FirstResponse.tool_calls = <<>>
    /\ answer = <<"h", "i">>

\* the loop never gets past position i, no answer, no final call
StopsAt(i) ==
    /\ idx <= i
    /\ pc \in {"ExecutingTools", "Raised"}
    /\ Len(completions) = 1
    /\ answer = None
    /\ Len(registry_calls) < i
    /\ Len(messages) <= 3 + (i - 1)

\* C6 (state part): a malformed invocation at position i stops the run there.
C6_StopsAtMalformed ==
    Len(completions) >= 1 =>
        \A i \in 1..NumInvocations : Malformed(Invocation(i)) => StopsAt(i)

\* C6 (step part): the pass of the loop over a malformed invocation raises
\* JSONDecodeError or KeyError and appends nothing.
C6_MalformedStepRaises ==
    (pc = "ExecutingTools" /\ idx <= Len(tool_calls) /\ Malformed(tool_calls[idx])) =>
        /\ pc' = "Raised"
        /\ exc' = IF tool_calls[idx].function.arguments = InvalidJsonText
                  THEN "JSONDecodeError" ELSE "KeyError"
        /\ UNCHANGED <<messages, registry_calls, completions, answer, idx>>

\* C6: a malformed invocation (argument string not valid JSON, or a name that
\* is not one of the four operations) is not caught: the exception leaves
\* run_agent, no later invocation is executed, no final completion call is
\* made and no answer is returned.
C6_MalformedPropagates ==
    [] C6_StopsAtMalformed /\ [][C6_MalformedStepRaises]_vars

\* a run that raised on a malformed second invocation after a first call
C6_Witness ==
    /\ pc = "Raised"
    /\ idx = 2
    /\ Len(registry_calls) = 1
    /\ Malformed(tool_calls[2])
    /\ NumInvocations = 2

\* the tool-result message of invocation i
ToolMessage(i) ==
    [role |-> "tool",
     tool_call_id |-> Invocation(i).id,
     name |-> Invocation(i).function.name,
     content |-> JsonDumps(registry_calls[i].result.value)]

\* the registry answered call i with a status other than 200
AnsweredNon200(i) ==
    ~registry_calls[i].response.failed /\ registry_calls[i].response.status_code /= 200

----------------------------------------------------------------------------
(* Claims about the Registry Client operations (specification ClientSpec) *)

Called == "pending" \notin DOMAIN result

\* the registry answered the call with this status
Answered(code) == ~call.response.failed /\ call.response.status_code = code

\* the study records of the response
Studies ==
    IF "studies" \in DOMAIN call.response.json THEN call.response.json.studies ELSE <<>>

\* the operation returned its summary of a 200 response
Summarised(op) == call.op = op /\ Called /\ Answered(200) /\ ~result.raised

DigitValue(c) == CHOOSE d \in 0..9 : Digits[d + 1] = c

IsNumeral(s) == s /= <<>> /\ \A i \in DOMAIN s : \E d \in 0..9 : Digits[d + 1] = s[i]

\* the number a decimal numeral denotes
RECURSIVE StrToInt(_)
StrToInt(s) ==
    IF s = <<>> THEN 0
    ELSE 10 * StrToInt(SubSeq(s, 1, Len(s) - 1)) + DigitValue(s[Len(s)])

\* the text holds the decimal numeral of n, not as part of a longer numeral
ContainsNumber(text, n) ==
    \E i \in DOMAIN text : \E j \in i..Len(text) :
        /\ IsNumeral(SubSeq(text, i, j))
        /\ StrToInt(SubSeq(text, i, j)) = n
        /\ (i > 1 => ~IsNumeral(<<text[i - 1]>>))
        /\ (j < Len(text) => ~IsNumeral(<<text[j + 1]>>))

StudiesDerivedFields ==
    {"count", "sample_titles", "criteria", "number_of_trials", "facilities",
     "number_of_facilities", "trials"}

\* C3: for each of the four operations and every status other than 200, the
\* operation does not raise and returns an error dictionary that holds the
\* status code and none of the studies-derived fields.
C3_Non200GivesErrorDict ==
    (Called /\ ~call.response.failed /\ call.response.status_code /= 200) =>
        /\ ~result.raised
        /\ "error" \in DOMAIN result.value
        /\ ContainsNumber(result.value.error, call.response.status_code)
        /\ DOMAIN result.value \cap StudiesDerivedFields = {}

\* get_trial_phases answered 204 gave the error dictionary
C3_Witness ==
    /\ call.op = "get_trial_phases"
    /\ Called
    /\ Answered(204)
    /\ DOMAIN result.value = {"error"}

\* the keys on the way to a field are all present in the study record
HasPath(d, path) ==
    /\ Len(path) >= 1 => path[1] \in DOMAIN d
    /\ Len(path) >= 2 => path[2] \in DOMAIN d[path[1]]
    /\ Len(path) >= 3 => path[3] \in DOMAIN d[path[1]][path[2]]
    /\ Len(path) >= 4 => path[4] \in DOMAIN d[path[1]][path[2]][path[3]]

IdPath(field) == <<"protocolSection", "identificationModule", field>>

EligibilityPath(field) == <<"protocolSection", "eligibilityModule", field>>

StartDatePath == <<"protocolSection", "statusModule", "startDateStruct", "date">>

CompletionDatePath == <<"protocolSection", "statusModule", "completionDateStruct", "date">>

PhasesPath == <<"protocolSection", "designModule", "phases">>

\* text begins / ends with the given text
StartsWith(text, pre) == Len(text) >= Len(pre) /\ SubSeq(text, 1, Len(pre)) = pre

EndsWith(text, suf) ==
    Len(text) >= Len(suf) /\ SubSeq(text, Len(text) - Len(suf) + 1, Len(text)) = suf

\* the location entries of one study record that has a protocol section
LocsOf(study) ==
    IF /\ "contactsLocationsModule" \in DOMAIN study.protocolSection
       /\ "locations" \in DOMAIN study.protocolSection.contactsLocationsModule
    THEN study.protocolSection.contactsLocationsModule.locations
    ELSE <<>>

\* the location entries of the response, in response order
RECURSIVE Flatten(_)
Flatten(studies) ==
    IF studies = <<>> THEN <<>> ELSE LocsOf(Head(studies)) \o Flatten(Tail(studies))

\* the two characters are the same letter in either case, or the same character
SameLetter(x, y) ==
    \/ x = y
    \/ \E k \in DOMAIN UpperChars :
          {x, y} \subseteq {UpperChars[k], LowerChars[k]}

\* the two texts are equal up to letter case
SameUpToCase(a, b) == Len(a) = Len(b) /\ \A k \in DOMAIN a : SameLetter(a[k], b[k])

\* a country filter is given
FilterGiven == call.b /= None /\ call.b /= <<>>

\* the entry has a country equal to the filter up to letter case
MatchesFilter(loc) == "country" \in DOMAIN loc /\ SameUpToCase(loc.country, call.b)

\* the entries of the response that pass the country filter, in order
Passing ==
    SelectSeq(Flatten(Studies), LAMBDA loc : ~FilterGiven \/ MatchesFilter(loc))

\* the (facility, city, country) triple of an entry, "N/A" for a missing part
Triple(loc) ==
    [facility |-> IF "facility" \in DOMAIN loc THEN loc.facility ELSE NA,
     city |-> IF "city" \in DOMAIN loc THEN loc.city ELSE NA,
     country |-> IF "country" \in DOMAIN loc THEN loc.country ELSE NA]

\* in the summary, every field whose key is missing from its study record is "N/A"
SentinelsInSummary ==
    LET v == result.value
    IN CASE call.op = "count_trials" ->
                \A i \in DOMAIN v.sample_titles :
                    ~HasPath(Studies[i], IdPath("briefTitle")) => v.sample_titles[i] = NA
         [] call.op = "get_eligibility_criteria" ->
                \A i \in DOMAIN v.criteria :
                    /\ ~HasPath(Studies[i], IdPath("nctId")) => v.criteria[i].nct_id = NA
                    /\ ~HasPath(Studies[i], IdPath("briefTitle")) => v.criteria[i].title = NA
                    /\ ~HasPath(Studies[i], EligibilityPath("eligibilityCriteria")) =>
                           v.criteria[i].criteria = NA
                    /\ ~HasPath(Studies[i], EligibilityPath("sex")) => v.criteria[i].sex = NA
                    /\ ~HasPath(Studies[i], EligibilityPath("minimumAge")) =>
                           StartsWith(v.criteria[i].age_range, NA)
                    /\ ~HasPath(Studies[i], EligibilityPath("maximumAge")) =>
                           EndsWith(v.criteria[i].age_range, NA)
         [] call.op = "get_trial_locations" ->
                v.number_of_facilities <= FacilityCap =>
                    \A p \in DOMAIN Passing :
                        \E i \in DOMAIN v.facilities : v.facilities[i] = Triple(Passing[p])
         [] call.op = "get_trial_phases" ->
                \A i \in DOMAIN v.trials :
                    /\ ~HasPath(Studies[i], IdPath("nctId")) => v.trials[i].nct_id = NA
                    /\ ~HasPath(Studies[i], IdPath("briefTitle")) => v.trials[i].title = NA
                    /\ ~HasPath(Studies[i], PhasesPath) => v.trials[i].phase = NA
                    /\ ~HasPath(Studies[i], StartDatePath) => v.trials[i].start_date = NA
                    /\ ~HasPath(Studies[i], CompletionDatePath) =>
                           v.trials[i].completion_date = NA

\* C4: for each of the four operations and every 200 response, the operation
\* does not raise, and every optional nested key missing from a study record
\* (protocol section, a module, a field of a module) shows as "N/A".
C4_MissingKeysBecomeNA ==
    (Called /\ Answered(200)) => (~result.raised /\ SentinelsInSummary)

\* C10: for each of the four operations, a 200 response whose studies key
\* is absent or whose studies list is empty gives a summary with zero counts
\* and empty lists, and the operation does not raise.
C10_NoStudiesGivesEmptySummary ==
    (Called /\ Answered(200)
        /\ ("studies" \notin DOMAIN call.response.json
            \/ Len(call.response.json.studies) = 0)) =>
        /\ ~result.raised
        /\ CASE call.op = "count_trials" ->
                    result.value.count = 0 /\ result.value.sample_titles = <<>>
             [] call.op = "get_eligibility_criteria" ->
                    result.value.number_of_trials = 0 /\ result.value.criteria = <<>>
             [] call.op = "get_trial_locations" ->
                    result.value.number_of_facilities = 0 /\ result.value.facilities = <<>>
             [] call.op = "get_trial_phases" ->
                    result.value.count = 0 /\ result.value.trials = <<>>

\* get_eligibility_criteria summarised a 200 response without a studies key
C10_Witness ==
    /\ Summarised("get_eligibility_criteria")
    /\ "studies" \notin DOMAIN call.response.json
    /\ result.value.number_of_trials = 0

\* the path of keys is missing from the i-th study record
Absent(i, path) == ~HasPath(Studies[i], path)

\* count = k, k trials in response order
TrialsFollowResponse ==
    /\ result.value.count = Len(Studies)
    /\ Len(result.value.trials) = Len(Studies)
    /\ \A i \in DOMAIN Studies :
          /\ result.value.trials[i].nct_id = Studies[i].protocolSection.identificationModule.nctId
          /\ result.value.trials[i].title =
                 Studies[i].protocolSection.identificationModule.briefTitle

TriplesSeen == LET ps == Passing IN [p \in DOMAIN ps |-> Triple(ps[p])]

\* for each position of ts, the first position with the same triple
FirstPositions(ts) ==
    [p \in DOMAIN ts |->
        CHOOSE q \in 1..p : ts[q] = ts[p] /\ \A r \in 1..(q - 1) : ts[r] /= ts[p]]

\* for each position of ts, how many distinct triples are seen up to the
\* first entry with its triple
Ranks(ts, first) ==
    [p \in DOMAIN ts |-> Cardinality({q \in 1..first[p] : first[q] = q})]

\* how many entries of the list fs are the triple t
Occurrences(fs, t) == Cardinality({i \in DOMAIN fs : fs[i] = t})

\* the list fs holds triples of ts only, in the order they are first seen
InFirstSeenOrder(fs, ts, first) ==
    /\ \A i \in DOMAIN fs : \E p \in DOMAIN ts : ts[p] = fs[i]
    /\ LET pos == [i \in DOMAIN fs |-> CHOOSE p \in DOMAIN ts : ts[p] = fs[i] /\ first[p] = p]
       IN \A i \in DOMAIN fs : i < Len(fs) => pos[i] < pos[i + 1]

\* C5 as stated: when two entries of a 200 response have the same
\* (facility, city, country) triple and pass the country filter, the
\* returned facilities list holds exactly one entry for that triple, and
\* the list is in first-seen order.
C5_Original ==
    Summarised("get_trial_locations") =>
        LET ts == TriplesSeen
            first == FirstPositions(ts)
            fs == result.value.facilities
        IN /\ \A q \in DOMAIN ts : first[q] < q => Occurrences(fs, ts[q]) = 1
           /\ InFirstSeenOrder(fs, ts, first)

\* C5 amended: the returned list holds at most one entry for the triple:
\* exactly one when the triple is among the first 20 distinct triples seen,
\* none otherwise (the list is cut to its first 20 entries); the list is in
\* first-seen order.
C5_Amended ==
    Summarised("get_trial_locations") =>
        LET ts == TriplesSeen
            first == FirstPositions(ts)
            rank == Ranks(ts, first)
            fs == result.value.facilities
        IN /\ \A q \in DOMAIN ts :
                  first[q] < q =>
                      Occurrences(fs, ts[q]) = IF rank[q] <= FacilityCap THEN 1 ELSE 0
           /\ InFirstSeenOrder(fs, ts, first)

\* a summary in which the duplicated triple is the 21st seen and is cut off
C5_Witness ==
    /\ Summarised("get_trial_locations")
    /\ LET ts == TriplesSeen
           first == FirstPositions(ts)
           rank == Ranks(ts, first)
       IN \E q \in DOMAIN ts :
              /\ first[q] < q
              /\ rank[q] = FacilityCap + 1
              /\ Occurrences(result.value.facilities, ts[q]) = 0
    /\ Len(result.value.facilities) = FacilityCap
    /\ result.value.number_of_facilities = FacilityCap + 1

\* C9: with a country filter c, every entry whose country equals c up to
\* letter case is kept as a candidate facility, and every entry whose
\* country differs from c beyond letter case, or that has no country, is
\* excluded: the candidates counted are exactly the triples of the matching
\* entries, and the returned list holds nothing else.
C9_CountryFilterIgnoresCase ==
    (Summarised("get_trial_locations") /\ FilterGiven) =>
        LET locs == Flatten(Studies)
            matching == {Triple(locs[p]) : p \in {p \in DOMAIN locs : MatchesFilter(locs[p])}}
            fs == result.value.facilities
        IN /\ result.value.number_of_facilities = Cardinality(matching)
           /\ \A i \in DOMAIN fs : fs[i] \in matching
           /\ \A i \in DOMAIN fs : SameUpToCase(fs[i].country, call.b)
           /\ (Cardinality(matching) <= FacilityCap =>
                  \A t \in matching : \E i \in DOMAIN fs : fs[i] = t)

\* a filter "Es" kept entries of country "ES" and "es" and dropped one
\* without a country
C9_Witness ==
    /\ Summarised("get_trial_locations")
    /\ call.b = <<"E", "s">>
    /\ \E p \in DOMAIN Flatten(Studies) : "country" \notin DOMAIN Flatten(Studies)[p]
    /\ \E i \in DOMAIN result.value.facilities :
           result.value.facilities[i].country = <<"E", "S">>
    /\ \E i \in DOMAIN result.value.facilities :
           result.value.facilities[i].country = <<"e", "s">>
    /\ result.value.number_of_facilities = 2

----------------------------------------------------------------------------
(* The Conversation of the final completion call (specification Spec) *)

\* json.dumps({"error": "API error: 404"})
Error404Text ==
    <<"{", "\"", "e", "r", "r", "o", "r", "\"", ":", " ", "\"", "A", "P", "I",
      " ", "e", "r", "r", "o", "r", ":", " ", "4", "0", "4", "\"", "}">>

\* json.dumps({"count": 0, "condition": "asthma", "status": "RECRUITING",
\*             "sample_titles": []})
NoTrialsText ==
    <<"{", "\"", "c", "o", "u", "n", "t", "\"", ":", " ", "0", ",", " ", "\"",
      "c", "o", "n", "d", "i", "t", "i", "o", "n", "\"", ":", " ", "\"", "a",
      "s", "t", "h", "m", "a", "\"", ",", " ", "\"", "s", "t", "a", "t", "u",
      "s", "\"", ":", " ", "\"", "R", "E", "C", "R", "U", "I", "T", "I", "N",
      "G", "\"", ",", " ", "\"", "s", "a", "m", "p", "l", "e", "_", "t", "i",
      "t", "l", "e", "s", "\"", ":", " ", "[", "]", "}">>

\* json.dumps of the get_trial_phases summary of one study that has only its
\* identification module
OnePhaseTrialText ==
    <<"{", "\"", "c", "o", "n", "d", "i", "t", "i", "o", "n", "\"", ":", " ",
      "\"", "a", "s", "t", "h", "m", "a", "\"", ",", " ", "\"", "p", "h", "a",
      "s", "e", "\"", ":", " ", "\"", "P", "H", "A", "S", "E", "3", "\"", ",",
      " ", "\"", "c", "o", "u", "n", "t", "\"", ":", " ", "1", ",", " ", "\"",
      "t", "r", "i", "a", "l", "s", "\"", ":", " ", "[", "{", "\"", "n", "c",
      "t", "_", "i", "d", "\"", ":", " ", "\"", "N", "C", "T", "1", "\"", ",",
      " ", "\"", "t", "i", "t", "l", "e", "\"", ":", " ", "\"", "T", "1", "\"",
      ",", " ", "\"", "p", "h", "a", "s", "e", "\"", ":", " ", "[", "\"", "N",
      "/", "A", "\"", "]", ",", " ", "\"", "s", "t", "a", "r", "t", "_", "d",
      "a", "t", "e", "\"", ":", " ", "\"", "N", "/", "A", "\"", ",", " ", "\"",
      "c", "o", "m", "p", "l", "e", "t", "i", "o", "n", "_", "d", "a", "t",
      "e", "\"", ":", " ", "\"", "N", "/", "A", "\"", "}", "]", "}">>

\* the results whose serialisation is written out above
KnownText(v) ==
    CASE v = [error |-> ApiErrorPrefix \o <<"4", "0", "4">>] -> Error404Text
      [] v = [count |-> 0, condition |-> Asthma,
              status |-> <<"R","E","C","R","U","I","T","I","N","G">>,
              sample_titles |-> <<>>] -> NoTrialsText
      [] v = [condition |-> Asthma, phase |-> <<"P", "H", "A", "S", "E", "3">>,
              count |-> 1,
              trials |-> <<[nct_id |-> <<"N", "C", "T", "1">>, title |-> <<"T", "1">>,
                            phase |-> <<NA>>, start_date |-> NA,
                            completion_date |-> NA]>>] -> OnePhaseTrialText
      [] OTHER -> <<>>

\* C11: the Conversation given to the final completion call is, in order,
\* the system message, the user question, the model's tool-invocation
\* message, then one tool-result message per invocation in invocation order,
\* the i-th tagged with the identifier and name of the i-th invocation and
\* carrying the JSON text of that invocation's result; the call is made only
\* once every tool result is appended, and without tools or tool selection.
C11_FinalConversation ==
    Len(completions) = 2 =>
        LET conv == completions[2].messages
            n == NumInvocations
        IN /\ n >= 1
           /\ Len(conv) = 3 + n
           /\ conv[1] = [role |-> "system", content |-> SystemPrompt]
           /\ conv[2].role = "user"
           /\ conv[2].content \in Questions
           /\ conv[2] = completions[1].messages[2]
           /\ conv[3] = FirstResponse
           /\ Len(registry_calls) = n
           /\ \A i \in 1..n :
                 /\ ~registry_calls[i].result.raised
                 /\ registry_calls[i].name = Invocation(i).function.name
                 /\ DOMAIN conv[3 + i] = {"role", "tool_call_id", "name", "content"}
                 /\ conv[3 + i].role = "tool"
                 /\ conv[3 + i].tool_call_id = Invocation(i).id
                 /\ conv[3 + i].name = Invocation(i).function.name
                 /\ conv[3 + i].content = JsonDumps(registry_calls[i].result.value)
                 /\ KnownText(registry_calls[i].result.value) \in {<<>>, conv[3 + i].content}
           /\ ~completions[2].tools
           /\ completions[2].tool_choice /= "auto"

\* a final call after a get_trial_phases summary and a count_trials error
C11_Witness ==
    /\ Len(completions) = 2
    /\ NumInvocations = 2
    /\ registry_calls[1].name = "get_trial_phases"
    /\ completions[2].messages[4].content = OnePhaseTrialText
    /\ registry_calls[2].name = "count_trials"
    /\ completions[2].messages[5].content = Error404Text
    /\ completions[2].messages[4].tool_call_id /= completions[2].messages[5].tool_call_id

=============================================================================
